---------------------------- MODULE Spec2Model ----------------------------
(***************************************************************************)
(* A model of QForge's self-healing core:                                  *)
(*   - the pattern and fix catalogues (failure-patterns.ts,                *)
(*     failure-fixes.ts),                                                  *)
(*   - FailureAnalyzer (analyzer.ts): analyzeFailure, suggestFixes,        *)
(*     getFixesForFailure, calculateConfidence, sortFailuresBySeverity,    *)
(*     extractLocation,                                                    *)
(*   - SelfHealingManager (manager.ts): analyzeFailure, attemptFix,        *)
(*     saveAnalysis, logFixAttempt, as asynchronous calls that interleave  *)
(*     at their awaits and share the temp directory, the history           *)
(*     directory and the wall clock.                                       *)
(*                                                                         *)
(* A log is a sequence of lines drawn from LogLines, joined by newlines.   *)
(* RegexExec tabulates, for every matcher of the catalogue and every line  *)
(* of LogLines, what String.prototype.match returns (the matched text, or  *)
(* NoMatch for null).  No matcher of the catalogue matches across the      *)
(* line break between two lines of LogLines, so matching a log is matching *)
(* its lines in order.                                                     *)
(***************************************************************************)
EXTENDS Integers, Sequences, FiniteSets, TLC

VARIABLES
  options,      \* SelfHealingOptions of the analyzer under test (its platform)
  phase,        \* position of the analyzer's caller
  log,          \* the log last passed to FailureAnalyzer.analyzeFailure
  failures,     \* the list FailureAnalyzer.analyzeFailure last returned
  suggestions,  \* the list FailureAnalyzer.suggestFixes last returned
  confIn,       \* the (failure, fixes) pair last passed to calculateConfidence
  confOut,      \* the number calculateConfidence last returned
  calls,        \* the Manager calls: operation, argument, position, result
  tmp,          \* os.tmpdir(): script file name -> content
  history,      \* the history directory: record file name -> record
  procs,        \* the bash subprocesses spawned so far
  storageFailed,\* whether a write to the history directory has failed
  now,          \* the wall clock in milliseconds (Date.now(), new Date())
  reportIn,     \* the (platform, pipelineContent) pair last passed to
                \* generateSelfHealingReport
  reportOut,    \* the report generateSelfHealingReport last returned
  catalogs,     \* the exported arrays of failure-patterns.ts and
                \* failure-fixes.ts: lists of references to their objects
  returned      \* the analyzer calls that have returned, in order

vars == <<options, phase, log, failures, suggestions, confIn, confOut,
          calls, tmp, history, procs, storageFailed, now,
          reportIn, reportOut, catalogs, returned>>

analyzerVars == <<options, phase, log, failures, suggestions>>
confVars == <<confIn, confOut>>
managerVars == <<calls, tmp, history, procs, storageFailed, now>>
reportVars == <<reportIn, reportOut>>
catalogVars == <<catalogs, returned>>

(***************************************************************************)
(* Bounds of the model.                                                    *)
(***************************************************************************)
MaxLogLen == 2
MaxFixes == 4
MaxCalls == 2
MaxClock == 1

(***************************************************************************)
(* types.ts                                                                *)
(***************************************************************************)
FailureType ==
  {"test", "build", "dependency", "resource", "network", "permission",
   "configuration", "timeout", "unknown"}

FailureSeverity == {"low", "medium", "high", "critical"}

DEFAULT_SELF_HEALING_OPTIONS == [platform |-> "github"]

\* CIPlatform, and one identifier outside it: the catalogue lookups take any
\* string at run time.
CIPlatform == {"github", "aws", "gitlab", "circleci"}

Platforms == CIPlatform \cup {"jenkins"}

\* null (no match) and undefined (an absent optional property)
NoMatch == "<null>"

Undefined == "<undefined>"

(***************************************************************************)
(* failure-patterns.ts.  A matcher is the text of its regular expression   *)
(* (RegExp.prototype.toString()).                                          *)
(***************************************************************************)
FAILURE_PATTERNS ==
  <<
    [type |-> "test", severity |-> "medium",
     patterns |-> << "/test(s)?\\s+failed/i",
                     "/failing\\s+test(s)?/i",
                     "/assertion\\s+failed/i",
                     "/expect(ed)?.+to\\s+(equal|be|include|contain|have)/i",
                     "/AssertionError/i",
                     "/Error:\\s+Test\\s+suite\\s+failed\\s+to\\s+run/i",
                     "/FAIL\\s+[a-zA-Z0-9_./-]+\\s+\\(\\d+\\.\\d+s\\)/i",
                     "/FAIL\\s+src\\/components\\/Button\\.test\\.js/i",
                     "/expect\\(jest\\.fn\\(\\)\\)\\.toHaveBeenCalledTimes\\(1\\)/i",
                     "/\\u25cf Button component \\u203a handles click events/i" >>,
     description |-> "One or more tests failed during execution"],
    [type |-> "test", severity |-> "low",
     patterns |-> << "/intermittent\\s+test\\s+failure/i",
                     "/flaky\\s+test/i",
                     "/test\\s+sometimes\\s+fails/i",
                     "/timeout\\s+exceeded\\s+waiting\\s+for/i",
                     "/async\\s+callback\\s+was\\s+not\\s+invoked\\s+within\\s+the\\s+\\d+ms\\s+timeout/i",
                     "/element\\s+not\\s+found/i",
                     "/element\\s+not\\s+visible/i" >>,
     description |-> "Tests appear to be flaky or timing-dependent"],
    [type |-> "build", severity |-> "high",
     patterns |-> << "/build\\s+failed/i",
                     "/compilation\\s+failed/i",
                     "/cannot\\s+find\\s+module/i",
                     "/module\\s+not\\s+found/i",
                     "/import\\s+error/i",
                     "/syntax\\s+error/i",
                     "/error\\s+TS\\d+/i",
                     "/error\\s+C\\d+/i",
                     "/error\\s+MSB\\d+/i",
                     "/error\\s+NETSDK\\d+/i",
                     "/error\\s+CS\\d+/i",
                     "/error\\s+LNK\\d+/i",
                     "/error:\\s+'[^']+'\\s+is\\s+not\\s+a\\s+member\\s+of\\s+'[^']+'/i",
                     "/error:\\s+use\\s+of\\s+undeclared\\s+identifier/i",
                     "/error:\\s+expected\\s+/i" >>,
     description |-> "Build or compilation process failed"],
    [type |-> "dependency", severity |-> "high",
     patterns |-> << "/could\\s+not\\s+find\\s+a\\s+version\\s+that\\s+satisfies\\s+the\\s+requirement/i",
                     "/could\\s+not\\s+resolve\\s+dependencies/i",
                     "/dependency\\s+resolution\\s+failed/i",
                     "/package\\s+not\\s+found/i",
                     "/unable\\s+to\\s+resolve\\s+dependency\\s+tree/i",
                     "/npm\\s+ERR!\\s+404/i",
                     "/pip\\s+install\\s+error/i",
                     "/failed\\s+to\\s+install\\s+dependencies/i",
                     "/no\\s+matching\\s+version\\s+found\\s+for/i",
                     "/incompatible\\s+dependency/i",
                     "/version\\s+conflict/i",
                     "/peer\\s+dependency\\s+conflict/i",
                     "/requires\\s+peer\\s+dependency/i",
                     "/npm\\s+ERR!\\s+code\\s+ERESOLVE/i",
                     "/npm\\s+ERR!\\s+ERESOLVE\\s+could\\s+not\\s+resolve\\s+dependency\\s+tree/i",
                     "/Could\\s+not\\s+resolve\\s+dependency:/i" >>,
     description |-> "Issues with dependency resolution or installation"],
    [type |-> "resource", severity |-> "high",
     patterns |-> << "/out\\s+of\\s+memory/i",
                     "/memory\\s+limit\\s+exceeded/i",
                     "/disk\\s+space\\s+limit\\s+exceeded/i",
                     "/no\\s+space\\s+left\\s+on\\s+device/i",
                     "/resource\\s+exhausted/i",
                     "/cpu\\s+usage\\s+limit\\s+exceeded/i",
                     "/heap\\s+limit\\s+exceeded/i",
                     "/JavaScript\\s+heap\\s+out\\s+of\\s+memory/i",
                     "/fatal\\s+error:\\s+Killed\\s+process/i",
                     "/exit\\s+code\\s+137/i",
                     "/exit\\s+code\\s+143/i" >>,
     description |-> "Process ran out of memory, disk space, or other resources"],
    [type |-> "network", severity |-> "medium",
     patterns |-> << "/network\\s+error/i",
                     "/connection\\s+refused/i",
                     "/connection\\s+reset/i",
                     "/connection\\s+timed\\s+out/i",
                     "/network\\s+timeout/i",
                     "/failed\\s+to\\s+fetch/i",
                     "/unable\\s+to\\s+connect\\s+to/i",
                     "/could\\s+not\\s+resolve\\s+host/i",
                     "/ECONNREFUSED/i",
                     "/ECONNRESET/i",
                     "/ETIMEDOUT/i",
                     "/ENETUNREACH/i",
                     "/socket\\s+hang\\s+up/i",
                     "/TLS\\s+handshake\\s+failed/i",
                     "/SSL\\s+certificate\\s+error/i" >>,
     description |-> "Network connectivity issues or service unavailability"],
    [type |-> "permission", severity |-> "high",
     patterns |-> << "/permission\\s+denied/i",
                     "/EACCES/i",
                     "/insufficient\\s+permissions/i",
                     "/not\\s+authorized/i",
                     "/authorization\\s+failed/i",
                     "/access\\s+denied/i",
                     "/forbidden/i",
                     "/403\\s+Forbidden/i",
                     "/401\\s+Unauthorized/i",
                     "/authentication\\s+failed/i",
                     "/could\\s+not\\s+authenticate/i",
                     "/API\\s+key\\s+is\\s+invalid/i",
                     "/token\\s+is\\s+invalid/i",
                     "/no\\s+such\\s+key/i" >>,
     description |-> "Permission or authentication issues"],
    [type |-> "configuration", severity |-> "medium",
     patterns |-> << "/configuration\\s+error/i",
                     "/invalid\\s+configuration/i",
                     "/missing\\s+configuration/i",
                     "/unknown\\s+option/i",
                     "/unrecognized\\s+option/i",
                     "/invalid\\s+option/i",
                     "/missing\\s+required\\s+option/i",
                     "/missing\\s+required\\s+parameter/i",
                     "/missing\\s+required\\s+environment\\s+variable/i",
                     "/environment\\s+variable\\s+not\\s+set/i",
                     "/invalid\\s+yaml/i",
                     "/invalid\\s+json/i",
                     "/invalid\\s+syntax/i",
                     "/could\\s+not\\s+parse/i",
                     "/unexpected\\s+token/i" >>,
     description |-> "Issues with configuration files or settings"],
    [type |-> "timeout", severity |-> "medium",
     patterns |-> << "/timeout\\s+exceeded/i",
                     "/timed\\s+out/i",
                     "/timeout\\s+waiting\\s+for/i",
                     "/execution\\s+timed\\s+out/i",
                     "/job\\s+exceeded\\s+maximum\\s+execution\\s+time/i",
                     "/task\\s+timed\\s+out\\s+after/i",
                     "/operation\\s+timed\\s+out/i",
                     "/ETIMEDOUT/i",
                     "/timeout\\s+of\\s+\\d+ms\\s+exceeded/i",
                     "/timeout\\s+after\\s+\\d+s/i" >>,
     description |-> "Process or operation timed out"]
  >>

PLATFORM_FAILURE_PATTERNS ==
  [
github |->
    <<
      [type |-> "permission", severity |-> "high",
       patterns |-> << "/refusing\\s+to\\s+allow\\s+a\\s+(GitHub App|OAuth App|Personal Access Token)/i",
                       "/permission\\s+to\\s+[a-zA-Z0-9_/-]+\\s+was\\s+denied/i",
                       "/workflow\\s+does\\s+not\\s+have\\s+permission\\s+to\\s+access\\s+the\\s+resource/i",
                       "/Resource\\s+not\\s+accessible\\s+by\\s+integration/i" >>,
       description |-> "GitHub Actions permission issues"],
      [type |-> "configuration", severity |-> "medium",
       patterns |-> << "/Invalid\\s+workflow\\s+file/i",
                       "/Workflow\\s+is\\s+not\\s+valid/i",
                       "/The\\s+workflow\\s+is\\s+not\\s+valid/i",
                       "/\\.github\\/workflows\\/[a-zA-Z0-9_-]+\\.ya?ml:\\s+Error/i" >>,
       description |-> "GitHub Actions workflow configuration issues"]
    >>,
   gitlab |->
    <<
      [type |-> "configuration", severity |-> "medium",
       patterns |-> << "/\\.gitlab-ci\\.ya?ml:\\s+([a-zA-Z0-9_-]+):\\s+config\\s+error/i",
                       "/Invalid\\s+configuration\\s+format/i",
                       "/jobs:[a-zA-Z0-9_-]+\\s+config\\s+should\\s+implement\\s+a\\s+script\\s+or\\s+a\\s+trigger/i" >>,
       description |-> "GitLab CI configuration issues"],
      [type |-> "resource", severity |-> "high",
       patterns |-> << "/Runner\\s+system\\s+failure/i",
                       "/Error:\\s+Job\\s+failed\\s+\\(system\\s+failure\\)/i" >>,
       description |-> "GitLab CI runner resource issues"]
    >>,
   circleci |->
    <<
      [type |-> "configuration", severity |-> "medium",
       patterns |-> << "/Error:\\s+Workflow\\s+validation\\s+error/i",
                       "/Error:\\s+Could\\s+not\\s+find\\s+a\\s+definition\\s+for\\s+job/i",
                       "/Error:\\s+Unknown\\s+executor/i" >>,
       description |-> "CircleCI configuration issues"],
      [type |-> "resource", severity |-> "high",
       patterns |-> << "/Error:\\s+Resource\\s+class\\s+[a-zA-Z0-9_-]+\\s+is\\s+not\\s+available/i",
                       "/Error:\\s+No\\s+available\\s+resource\\s+found/i" >>,
       description |-> "CircleCI resource issues"]
    >>,
   aws |->
    <<
      [type |-> "permission", severity |-> "high",
       patterns |-> << "/User:\\s+arn:aws:[a-zA-Z0-9:-]+\\s+is\\s+not\\s+authorized\\s+to\\s+perform/i",
                       "/AccessDenied/i",
                       "/not\\s+authorized\\s+to\\s+perform\\s+action/i" >>,
       description |-> "AWS CodePipeline permission issues"],
      [type |-> "configuration", severity |-> "medium",
       patterns |-> << "/Invalid\\s+action\\s+configuration/i",
                       "/Action\\s+configuration\\s+validation\\s+failed/i",
                       "/The\\s+action\\s+failed\\s+because\\s+the\\s+artifact/i" >>,
       description |-> "AWS CodePipeline configuration issues"]
    >>
  ]

LogLines ==
  { "all checks passed",
    "assertion failed at src/app.ts:42:7",
    "flaky test",
    "JavaScript heap out of memory",
    "connect ETIMEDOUT",
    "Invalid workflow file: AccessDenied",
    "Runner system failure, Error: Unknown executor",
    "npm ERR! code ERESOLVE ... could not resolve dependency tree",
    "FAIL src/x.test.js ... expect(fn()).toHaveBeenCalledTimes(1)" }

RegexHits ==
  ("/assertion\\s+failed/i" :>
       ("assertion failed at src/app.ts:42:7" :> "assertion failed")) @@
  ("/flaky\\s+test/i" :>
       ("flaky test" :> "flaky test")) @@
  ("/npm\\s+ERR!\\s+code\\s+ERESOLVE/i" :>
       ("npm ERR! code ERESOLVE ... could not resolve dependency tree" :> "npm ERR! code ERESOLVE")) @@
  ("/out\\s+of\\s+memory/i" :>
       ("JavaScript heap out of memory" :> "out of memory")) @@
  ("/JavaScript\\s+heap\\s+out\\s+of\\s+memory/i" :>
       ("JavaScript heap out of memory" :> "JavaScript heap out of memory")) @@
  ("/ETIMEDOUT/i" :>
       ("connect ETIMEDOUT" :> "ETIMEDOUT")) @@
  ("/Invalid\\s+workflow\\s+file/i" :>
       ("Invalid workflow file: AccessDenied" :> "Invalid workflow file")) @@
  ("/Runner\\s+system\\s+failure/i" :>
       ("Runner system failure, Error: Unknown executor" :> "Runner system failure")) @@
  ("/Error:\\s+Unknown\\s+executor/i" :>
       ("Runner system failure, Error: Unknown executor" :> "Error: Unknown executor")) @@
  ("/AccessDenied/i" :>
       ("Invalid workflow file: AccessDenied" :> "AccessDenied"))

RegexExec(re, line) ==
  IF re \in DOMAIN RegexHits
    THEN (IF line \in DOMAIN RegexHits[re] THEN RegexHits[re][line] ELSE NoMatch)
    ELSE NoMatch

FileLineHits ==
  ("assertion failed at src/app.ts:42:7" :> "src/app.ts:42:7")

FileLineExec(line) ==
  IF line \in DOMAIN FileLineHits THEN FileLineHits[line] ELSE NoMatch
COMMON_FIXES ==
  <<
    [type |-> "test", description |-> "Add retry for flaky tests",
     fixScript |-> "", platformSpecific |-> FALSE, platforms |-> {}],
    [type |-> "test", description |-> "Update test expectations",
     fixScript |-> "", platformSpecific |-> FALSE, platforms |-> {}],
    [type |-> "test", description |-> "Fix test environment issues",
     fixScript |-> "", platformSpecific |-> FALSE, platforms |-> {}],
    [type |-> "build", description |-> "Fix compilation errors",
     fixScript |-> "", platformSpecific |-> FALSE, platforms |-> {}],
    [type |-> "build", description |-> "Update build configuration",
     fixScript |-> "", platformSpecific |-> FALSE, platforms |-> {}],
    [type |-> "build", description |-> "Clean build cache",
     fixScript |-> "# Clean build cache", platformSpecific |-> FALSE, platforms |-> {}],
    [type |-> "dependency", description |-> "Update dependencies",
     fixScript |-> "", platformSpecific |-> FALSE, platforms |-> {}],
    [type |-> "dependency", description |-> "Fix dependency resolution",
     fixScript |-> "# For npm", platformSpecific |-> FALSE, platforms |-> {}],
    [type |-> "dependency", description |-> "Use specific dependency versions",
     fixScript |-> "", platformSpecific |-> FALSE, platforms |-> {}],
    [type |-> "resource", description |-> "Increase resource limits",
     fixScript |-> "", platformSpecific |-> FALSE, platforms |-> {}],
    [type |-> "resource", description |-> "Optimize resource usage",
     fixScript |-> "", platformSpecific |-> FALSE, platforms |-> {}],
    [type |-> "resource", description |-> "Clean up unused resources",
     fixScript |-> "# Remove temporary files and directories", platformSpecific |-> FALSE, platforms |-> {}],
    [type |-> "network", description |-> "Implement retries for network operations",
     fixScript |-> "", platformSpecific |-> FALSE, platforms |-> {}],
    [type |-> "network", description |-> "Use reliable package sources",
     fixScript |-> "", platformSpecific |-> FALSE, platforms |-> {}],
    [type |-> "network", description |-> "Check service status",
     fixScript |-> "", platformSpecific |-> FALSE, platforms |-> {}],
    [type |-> "permission", description |-> "Update permissions",
     fixScript |-> "", platformSpecific |-> FALSE, platforms |-> {}],
    [type |-> "permission", description |-> "Fix file permissions",
     fixScript |-> "# Make scripts executable", platformSpecific |-> FALSE, platforms |-> {}],
    [type |-> "configuration", description |-> "Fix configuration syntax",
     fixScript |-> "", platformSpecific |-> FALSE, platforms |-> {}],
    [type |-> "configuration", description |-> "Update environment variables",
     fixScript |-> "", platformSpecific |-> FALSE, platforms |-> {}],
    [type |-> "timeout", description |-> "Increase timeouts",
     fixScript |-> "", platformSpecific |-> FALSE, platforms |-> {}],
    [type |-> "timeout", description |-> "Optimize performance",
     fixScript |-> "", platformSpecific |-> FALSE, platforms |-> {}]
  >>

PLATFORM_FIXES ==
  [github |->
    <<
      [type |-> "permission", description |-> "Update GitHub Actions permissions",
       fixScript |-> "", platformSpecific |-> TRUE, platforms |-> {"github"}],
      [type |-> "resource", description |-> "Optimize GitHub Actions workflow",
       fixScript |-> "", platformSpecific |-> TRUE, platforms |-> {"github"}],
      [type |-> "configuration", description |-> "Fix GitHub Actions workflow syntax",
       fixScript |-> "", platformSpecific |-> TRUE, platforms |-> {"github"}]
    >>,
   aws |->
    <<
      [type |-> "permission", description |-> "Update AWS IAM permissions",
       fixScript |-> "", platformSpecific |-> TRUE, platforms |-> {"aws"}],
      [type |-> "configuration", description |-> "Fix AWS CodePipeline configuration",
       fixScript |-> "", platformSpecific |-> TRUE, platforms |-> {"aws"}]
    >>,
   gitlab |->
    <<
      [type |-> "resource", description |-> "Optimize GitLab CI resources",
       fixScript |-> "", platformSpecific |-> TRUE, platforms |-> {"gitlab"}],
      [type |-> "configuration", description |-> "Fix GitLab CI configuration",
       fixScript |-> "", platformSpecific |-> TRUE, platforms |-> {"gitlab"}]
    >>,
   circleci |->
    <<
      [type |-> "resource", description |-> "Optimize CircleCI resources",
       fixScript |-> "", platformSpecific |-> TRUE, platforms |-> {"circleci"}],
      [type |-> "configuration", description |-> "Fix CircleCI configuration",
       fixScript |-> "", platformSpecific |-> TRUE, platforms |-> {"circleci"}]
    >>
  ]
(***************************************************************************)
(* Logs: sequences of at most MaxLogLen lines of LogLines.                 *)
(***************************************************************************)
Logs == UNION {[1..n -> LogLines] : n \in 0..MaxLogLen}

(***************************************************************************)
(* analyzer.ts                                                             *)
(***************************************************************************)
RECURSIVE FirstExec(_, _, _)
\* log.match(regex): the leftmost match, which lies in the first line that
\* matches; NoMatch when no line does.
FirstExec(re, l, i) ==
  IF i > Len(l) THEN NoMatch
  ELSE IF RegexExec(re, l[i]) # NoMatch THEN RegexExec(re, l[i])
  ELSE FirstExec(re, l, i + 1)

LogMatch(l, re) == FirstExec(re, l, 1)

RECURSIVE FirstFileLine(_, _)
FirstFileLine(l, i) ==
  IF i > Len(l) THEN Undefined
  ELSE IF FileLineExec(l[i]) # NoMatch THEN FileLineExec(l[i])
  ELSE FirstFileLine(l, i + 1)

\* extractLocation: the first path:line[:column] token within 200 characters
\* around the match.  Every log of Logs is shorter than 200 characters, so
\* the window is the whole log.
ExtractLocation(l, matchedText) == FirstFileLine(l, 1)

PatternsForOverlayFirst(opts) ==
  (IF opts.platform \in DOMAIN PLATFORM_FAILURE_PATTERNS
     THEN PLATFORM_FAILURE_PATTERNS[opts.platform]
     ELSE << >>)
  \o FAILURE_PATTERNS

\* The rule list analyzeFailure evaluates: the platform-agnostic rules, then
\* the platform's overlay (|| [] when the platform has none).
PatternsFor(opts) ==
  FAILURE_PATTERNS \o
    (IF opts.platform \in DOMAIN PLATFORM_FAILURE_PATTERNS
       THEN PLATFORM_FAILURE_PATTERNS[opts.platform]
       ELSE << >>)

\* The object pushed for one matcher that fires.
MatchedFailure(l, pattern, re) ==
  [type |-> pattern.type,
   severity |-> pattern.severity,
   message |-> LogMatch(l, re),
   matchedPattern |-> re,
   description |-> pattern.description,
   location |-> ExtractLocation(l, LogMatch(l, re))]

RECURSIVE MatchRuleFirstOnly(_, _, _)
MatchRuleFirstOnly(l, pattern, j) ==
  IF j > Len(pattern.patterns) THEN << >>
  ELSE IF LogMatch(l, pattern.patterns[j]) # NoMatch
         THEN << MatchedFailure(l, pattern, pattern.patterns[j]) >>
         ELSE MatchRuleFirstOnly(l, pattern, j + 1)

RECURSIVE MatchRule(_, _, _)
\* the inner loop: the matchers of one rule, from index j on
MatchRule(l, pattern, j) ==
  IF j > Len(pattern.patterns) THEN << >>
  ELSE (IF LogMatch(l, pattern.patterns[j]) # NoMatch
          THEN << MatchedFailure(l, pattern, pattern.patterns[j]) >>
          ELSE << >>)
       \o MatchRule(l, pattern, j + 1)

RECURSIVE MatchRules(_, _, _)
\* the outer loop: the rules of the list, from index i on
MatchRules(l, patterns, i) ==
  IF i > Len(patterns) THEN << >>
  ELSE MatchRule(l, patterns[i], 1) \o MatchRules(l, patterns, i + 1)

UnknownFailure ==
  [type |-> "unknown",
   severity |-> "medium",
   message |-> "Unknown failure",
   matchedPattern |-> "",
   description |-> "Could not determine the specific cause of failure",
   location |-> Undefined]

\* detectedFailures as it stands before the sort
DetectFailuresNoFallback(opts, l) == MatchRules(l, PatternsFor(opts), 1)

DetectFailuresAlwaysFallback(opts, l) ==
  MatchRules(l, PatternsFor(opts), 1) \o << UnknownFailure >>

DetectFailures(opts, l) ==
  IF Len(MatchRules(l, PatternsFor(opts), 1)) = 0
    THEN << UnknownFailure >>
    ELSE MatchRules(l, PatternsFor(opts), 1)

severityOrder == [critical |-> 0, high |-> 1, medium |-> 2, low |-> 3]

\* the comparator: negative when a sorts before b
CompareSeverity(a, b) == severityOrder[a.severity] - severityOrder[b.severity]

RECURSIVE InsertStable(_, _)
\* x goes behind every element that does not sort after it
InsertStable(sorted, x) ==
  IF Len(sorted) = 0 THEN << x >>
  ELSE IF CompareSeverity(Head(sorted), x) <= 0
    THEN << Head(sorted) >> \o InsertStable(Tail(sorted), x)
    ELSE << x >> \o sorted

RECURSIVE SortFrom(_, _, _)
SortFrom(fs, i, acc) ==
  IF i > Len(fs) THEN acc ELSE SortFrom(fs, i + 1, InsertStable(acc, fs[i]))

RECURSIVE InsertUnstable(_, _)
InsertUnstable(sorted, x) ==
  IF Len(sorted) = 0 THEN << x >>
  ELSE IF CompareSeverity(Head(sorted), x) < 0
    THEN << Head(sorted) >> \o InsertUnstable(Tail(sorted), x)
    ELSE << x >> \o sorted

RECURSIVE SortFromUnstable(_, _, _)
SortFromUnstable(fs, i, acc) ==
  IF i > Len(fs) THEN acc
  ELSE SortFromUnstable(fs, i + 1, InsertUnstable(acc, fs[i]))

SortUnstable(fs) == SortFromUnstable(fs, 1, << >>)

\* [...failures].sort(comparator): Array.prototype.sort is stable (ES2019)
SortFailuresBySeverity(fs) == SortFrom(fs, 1, << >>)

AnalyzeFailure(opts, l) == SortFailuresBySeverity(DetectFailures(opts, l))

GetFixesForFailurePlatformOnly(opts, failure) ==
  IF opts.platform \in DOMAIN PLATFORM_FIXES
    THEN SelectSeq(PLATFORM_FIXES[opts.platform],
                   LAMBDA fix : /\ fix.type = failure.type
                                /\ fix.platformSpecific
                                /\ opts.platform \in fix.platforms)
    ELSE << >>

GetFixesForFailureAnyPlatformType(opts, failure) ==
  SelectSeq(COMMON_FIXES, LAMBDA fix : fix.type = failure.type)
  \o (IF opts.platform \in DOMAIN PLATFORM_FIXES
        THEN SelectSeq(PLATFORM_FIXES[opts.platform],
                       LAMBDA fix : /\ fix.platformSpecific
                                    /\ opts.platform \in fix.platforms)
        ELSE << >>)

GetFixesForFailureScriptedOnly(opts, failure) ==
  SelectSeq(COMMON_FIXES,
            LAMBDA fix : fix.type = failure.type /\ fix.fixScript # "")
  \o (IF opts.platform \in DOMAIN PLATFORM_FIXES
        THEN SelectSeq(PLATFORM_FIXES[opts.platform],
                       LAMBDA fix : /\ fix.type = failure.type
                                    /\ fix.fixScript # ""
                                    /\ fix.platformSpecific
                                    /\ opts.platform \in fix.platforms)
        ELSE << >>)

\* getFixesForFailure; ?. and || [] give the empty list for a platform
\* without an entry
GetFixesForFailure(opts, failure) ==
  SelectSeq(COMMON_FIXES, LAMBDA fix : fix.type = failure.type)
  \o (IF opts.platform \in DOMAIN PLATFORM_FIXES
        THEN SelectSeq(PLATFORM_FIXES[opts.platform],
                       LAMBDA fix : /\ fix.type = failure.type
                                    /\ fix.platformSpecific
                                    /\ opts.platform \in fix.platforms)
        ELSE << >>)

Max(a, b) == IF a >= b THEN a ELSE b

Min(a, b) == IF a <= b THEN a ELSE b

SomeFix(fixes, P(_)) == \E i \in 1..Len(fixes) : P(fixes[i])

BaseConfidenceSwapped(severity) ==
  CASE severity = "critical" -> 90
    [] severity = "high" -> 60
    [] severity = "medium" -> 75
    [] severity = "low" -> 40
    [] OTHER -> 30

\* the switch on failure.severity
BaseConfidence(severity) ==
  CASE severity = "critical" -> 90
    [] severity = "high" -> 75
    [] severity = "medium" -> 60
    [] severity = "low" -> 40
    [] OTHER -> 30

\* confidence before the final clamp
RawConfidence(failure, fixes) ==
  BaseConfidence(failure.severity)
  + (IF Len(fixes) = 0 THEN -20 ELSE IF Len(fixes) > 3 THEN -10 ELSE 0)
  + (IF failure.type = "unknown" THEN -30 ELSE 0)
  + (IF SomeFix(fixes, LAMBDA fix : fix.platformSpecific) THEN 10 ELSE 0)

CalculateConfidenceOffByOne(failure, fixes) ==
  Max(0, Min(100,
    BaseConfidence(failure.severity)
    + (IF Len(fixes) = 0 THEN -20 ELSE IF Len(fixes) >= 3 THEN -10 ELSE 0)
    + (IF failure.type = "unknown" THEN -30 ELSE 0)
    + (IF SomeFix(fixes, LAMBDA fix : fix.platformSpecific) THEN 10 ELSE 0)))

CalculateConfidenceNoFloor(failure, fixes) ==
  Min(100, RawConfidence(failure, fixes))

CalculateConfidenceNoUnknownPenalty(failure, fixes) ==
  Max(0, Min(100,
    BaseConfidence(failure.severity)
    + (IF Len(fixes) = 0 THEN -20 ELSE IF Len(fixes) > 3 THEN -10 ELSE 0)
    + (IF SomeFix(fixes, LAMBDA fix : fix.platformSpecific) THEN 10 ELSE 0)))

CalculateConfidence(failure, fixes) ==
  Max(0, Min(100, RawConfidence(failure, fixes)))

SuggestionForAnyFix(opts, failure) ==
  [failure |-> failure,
   fixes |-> GetFixesForFailure(opts, failure),
   autoFixPossible |-> Len(GetFixesForFailure(opts, failure)) > 0,
   confidence |-> CalculateConfidence(failure, GetFixesForFailure(opts, failure))]

SuggestionFor(opts, failure) ==
  LET fixes == GetFixesForFailure(opts, failure)
  IN  [failure |-> failure,
       fixes |-> fixes,
       autoFixPossible |-> SomeFix(fixes, LAMBDA fix : fix.fixScript # ""),
       confidence |-> CalculateConfidence(failure, fixes)]

SuggestFixesSkipNoFix(opts, fs) ==
  LET kept == SelectSeq(fs, LAMBDA f : Len(GetFixesForFailure(opts, f)) > 0)
  IN  [i \in 1..Len(kept) |-> SuggestionFor(opts, kept[i])]

SuggestFixes(opts, fs) == [i \in 1..Len(fs) |-> SuggestionFor(opts, fs[i])]

(***************************************************************************)
(* The catalogues as the running program holds them.  failure-patterns.ts  *)
(* and failure-fixes.ts export four arrays of object literals; an array    *)
(* holds references, written here as the position of the object among the  *)
(* rule objects (PatternObjects) or the fix objects (FixObjects) in the    *)
(* order the modules create them.  No statement of analyzer.ts or          *)
(* manager.ts assigns to a property of a rule or of a fix.                 *)
(***************************************************************************)
CatalogOrder == << "github", "aws", "gitlab", "circleci" >>

PatternObjects ==
  FAILURE_PATTERNS
    \o PLATFORM_FAILURE_PATTERNS.github \o PLATFORM_FAILURE_PATTERNS.aws
    \o PLATFORM_FAILURE_PATTERNS.gitlab \o PLATFORM_FAILURE_PATTERNS.circleci

FixObjects ==
  COMMON_FIXES
    \o PLATFORM_FIXES.github \o PLATFORM_FIXES.aws
    \o PLATFORM_FIXES.gitlab \o PLATFORM_FIXES.circleci

RECURSIVE LenBefore(_, _)
\* the number of objects the lists of the platforms before CatalogOrder[k] hold
LenBefore(lists, k) ==
  IF k = 1 THEN 0
  ELSE LenBefore(lists, k - 1) + Len(lists[CatalogOrder[k - 1]])

RefsFrom(first, n) == [i \in 1..n |-> first + i - 1]

PlatformRefs(common, lists) ==
  [p \in CIPlatform |->
     LET k == CHOOSE k \in 1..Len(CatalogOrder) : CatalogOrder[k] = p
     IN  RefsFrom(Len(common) + LenBefore(lists, k) + 1, Len(lists[p]))]

\* the four arrays once both modules are loaded
LoadedCatalogs ==
  [FAILURE_PATTERNS |-> RefsFrom(1, Len(FAILURE_PATTERNS)),
   PLATFORM_FAILURE_PATTERNS |->
     PlatformRefs(FAILURE_PATTERNS, PLATFORM_FAILURE_PATTERNS),
   COMMON_FIXES |-> RefsFrom(1, Len(COMMON_FIXES)),
   PLATFORM_FIXES |-> PlatformRefs(COMMON_FIXES, PLATFORM_FIXES)]

Deref(objects, refs) == [i \in 1..Len(refs) |-> objects[refs[i]]]

\* PLATFORM_FAILURE_PATTERNS[platform] || [], PLATFORM_FIXES[platform] ... || []
ListFor(lists, platform) ==
  IF platform \in DOMAIN lists THEN lists[platform] ELSE << >>

CatalogsAfterAnalyzePushing(cat, opts) ==
  [cat EXCEPT !.FAILURE_PATTERNS =
     @ \o ListFor(cat.PLATFORM_FAILURE_PATTERNS, opts.platform)]

\* analyzeFailure writes to its locals only: `patterns` is a new array the
\* two catalogue arrays are spread into, detectedFailures is pushed to, and
\* sortFailuresBySeverity sorts a copy
CatalogsAfterAnalyze(cat, opts) == cat

\* analyzeFailure, reading the catalogue arrays as they stand
AnalyzeFailureOn(cat, opts, l) ==
  LET patterns ==
        Deref(PatternObjects,
              cat.FAILURE_PATTERNS
                \o ListFor(cat.PLATFORM_FAILURE_PATTERNS, opts.platform))
      detectedFailures == MatchRules(l, patterns, 1)
  IN  SortFailuresBySeverity(
        IF Len(detectedFailures) = 0 THEN << UnknownFailure >>
                                     ELSE detectedFailures)

\* getFixesForFailure, reading the catalogue arrays as they stand
GetFixesForFailureOn(cat, opts, failure) ==
  SelectSeq(Deref(FixObjects, cat.COMMON_FIXES),
            LAMBDA fix : fix.type = failure.type)
  \o SelectSeq(Deref(FixObjects, ListFor(cat.PLATFORM_FIXES, opts.platform)),
               LAMBDA fix : /\ fix.type = failure.type
                            /\ fix.platformSpecific
                            /\ opts.platform \in fix.platforms)

CatalogsAfterGetFixesPushing(cat, opts, failure) ==
  [cat EXCEPT !.COMMON_FIXES =
     @ \o SelectSeq(ListFor(cat.PLATFORM_FIXES, opts.platform),
                    LAMBDA ref : FixObjects[ref].type = failure.type)]

\* getFixesForFailure writes to its locals only: filter returns new arrays
\* and the result is a new array both are spread into
CatalogsAfterGetFixes(cat, opts, failure) == cat

RECURSIVE CatalogsAfterSuggest(_, _, _, _)
\* the catalogues after suggestFixes has handled the failures from index i on
CatalogsAfterSuggest(cat, opts, fs, i) ==
  IF i > Len(fs) THEN cat
  ELSE CatalogsAfterSuggest(CatalogsAfterGetFixes(cat, opts, fs[i]), opts, fs,
                            i + 1)

RECURSIVE SuggestFixesOn(_, _, _, _)
\* suggestFixes from index i on, reading the catalogue arrays as they stand
SuggestFixesOn(cat, opts, fs, i) ==
  IF i > Len(fs) THEN << >>
  ELSE LET fixes == GetFixesForFailureOn(cat, opts, fs[i])
       IN  << [failure |-> fs[i],
               fixes |-> fixes,
               autoFixPossible |->
                 SomeFix(fixes, LAMBDA fix : fix.fixScript # ""),
               confidence |-> CalculateConfidence(fs[i], fixes)] >>
           \o SuggestFixesOn(CatalogsAfterGetFixes(cat, opts, fs[i]), opts, fs,
                             i + 1)

(***************************************************************************)
(* The Manager's state when no call has been made.                         *)
(***************************************************************************)
Calls == 1..MaxCalls

EmptyDir == [name \in {} |-> Undefined]

IdleCall ==
  [op |-> "none", pc |-> "idle", arg |-> Undefined, scriptFile |-> Undefined,
   locals |-> Undefined, wrote |-> FALSE, proc |-> "none", stdout |-> "",
   stderr |-> "", err |-> "", result |-> Undefined]

ManagerInit ==
  /\ calls = [c \in Calls |-> IdleCall]
  /\ tmp = EmptyDir
  /\ history = EmptyDir
  /\ procs = {}
  /\ storageFailed = FALSE
  /\ now = 0
  /\ reportIn = Undefined
  /\ reportOut = Undefined
  /\ catalogs = LoadedCatalogs
  /\ returned = << >>

(***************************************************************************)
(* SpecAnalyzer: a FailureAnalyzer constructed for some platform, whose    *)
(* caller passes any log of Logs to analyzeFailure and the returned list   *)
(* to suggestFixes.                                                        *)
(***************************************************************************)
InitAnalyzer ==
  /\ options \in {[platform |-> p] : p \in Platforms}
  /\ phase = "constructed"
  /\ log = << >>
  /\ failures = << >>
  /\ suggestions = << >>
  /\ confIn = Undefined
  /\ confOut = 0
  /\ ManagerInit

CallAnalyzeFailureOf(logs) ==
  \E l \in logs :
    /\ phase = "constructed"
    /\ log' = l
    /\ failures' = AnalyzeFailure(options, l)
    /\ suggestions' = << >>
    /\ phase' = "analyzed"
    /\ catalogs' = CatalogsAfterAnalyze(catalogs, options)
    /\ UNCHANGED <<returned, options, confVars, managerVars, reportVars>>

\* the caller passes any log of Logs
CallAnalyzeFailure == CallAnalyzeFailureOf(Logs)

CallSuggestFixes ==
  /\ phase = "analyzed"
  /\ suggestions' = SuggestFixes(options, failures)
  /\ phase' = "suggested"
  /\ catalogs' = CatalogsAfterSuggest(catalogs, options, failures, 1)
  /\ UNCHANGED <<returned, options, log, failures, confVars, managerVars, reportVars>>

NextAnalyzer == CallAnalyzeFailure \/ CallSuggestFixes

SpecAnalyzer == InitAnalyzer /\ [][NextAnalyzer]_vars

(***************************************************************************)
(* SpecConfidence: calculateConfidence applied to any failure (any         *)
(* severity, one outside the enumeration included, and any type) and any   *)
(* fix list of at most MaxFixes fixes, platform-specific or not.           *)
(***************************************************************************)
Severities == FailureSeverity \cup {"info"}

FailureOf(type, severity) ==
  [type |-> type, severity |-> severity, message |-> "m",
   matchedPattern |-> "", description |-> "d", location |-> Undefined]

FixShapes == {COMMON_FIXES[1], PLATFORM_FIXES.github[1]}

FixLists == UNION {[1..n -> FixShapes] : n \in 0..MaxFixes}

InitConfidence ==
  /\ options = DEFAULT_SELF_HEALING_OPTIONS
  /\ phase = "constructed"
  /\ log = << >>
  /\ failures = << >>
  /\ suggestions = << >>
  /\ confIn \in {[failure |-> FailureOf(t, s), fixes |-> fl] :
                   t \in FailureType, s \in Severities, fl \in FixLists}
  /\ confOut = 0
  /\ ManagerInit

CallCalculateConfidence ==
  /\ phase = "constructed"
  /\ confOut' = CalculateConfidence(confIn.failure, confIn.fixes)
  /\ phase' = "calculated"
  /\ UNCHANGED <<catalogVars, options, log, failures, suggestions, confIn, managerVars,
                 reportVars>>

NextConfidence == CallCalculateConfidence

SpecConfidence == InitConfidence /\ [][NextConfidence]_vars

(***************************************************************************)
(* SpecSuggest: a FailureAnalyzer constructed for some platform, whose     *)
(* caller passes suggestFixes any list of at most MaxFailures failures,    *)
(* the empty list included: failures of every type, and failures of type   *)
(* unknown of every severity.                                              *)
(***************************************************************************)
MaxFailures == 2

FailureShapes ==
  {FailureOf(t, "high") : t \in FailureType}
    \cup {FailureOf("unknown", s) : s \in Severities}

FailureLists == UNION {[1..n -> FailureShapes] : n \in 0..MaxFailures}

CallSuggestFixesWith ==
  \E fs \in FailureLists :
    /\ phase = "constructed"
    /\ failures' = fs
    /\ suggestions' = SuggestFixes(options, fs)
    /\ phase' = "suggested"
    /\ catalogs' = CatalogsAfterSuggest(catalogs, options, fs, 1)
    /\ UNCHANGED <<returned, options, log, confVars, managerVars, reportVars>>

NextSuggest == CallSuggestFixesWith

SpecSuggest == InitAnalyzer /\ [][NextSuggest]_vars

(***************************************************************************)
(* manager.ts.  Every Manager call is an async function: it runs from one  *)
(* await to the next in one step, and the steps of different calls         *)
(* interleave.  The file system operation a call awaits takes effect in    *)
(* the step that resumes the call.                                         *)
(***************************************************************************)
WriteFileTo(dir, name, content) ==
  [n \in DOMAIN dir \cup {name} |-> IF n = name THEN content ELSE dir[n]]

RemoveFrom(dir, name) == [n \in DOMAIN dir \ {name} |-> dir[n]]

\* path.join(os.tmpdir(), `qforge-fix-${Date.now()}.sh`)
ScriptFileName(t) == <<"qforge-fix", t>>

\* `analysis-${timestamp}.json`; the timestamp has millisecond resolution
AnalysisFileName(t) == <<"analysis", t>>

\* `fix-attempt-${timestamp}.json`
FixAttemptFileName(t) == <<"fix-attempt", t>>

RECURSIVE FindScriptFix(_, _)
\* suggestion.fixes.find(f => !!f.fixScript), from index i on: the index of
\* the fix found, 0 for undefined
FindScriptFix(fixes, i) ==
  IF i > Len(fixes) THEN 0
  ELSE IF fixes[i].fixScript # "" THEN i
  ELSE FindScriptFix(fixes, i + 1)

AttemptFixEntryNoFlagCheck(suggestion) ==
  IF FindScriptFix(suggestion.fixes, 1) = 0 THEN "noScript" ELSE "run"

\* the two early returns of attemptFix
AttemptFixEntry(suggestion) ==
  IF ~suggestion.autoFixPossible THEN "noAutoFix"
  ELSE IF FindScriptFix(suggestion.fixes, 1) = 0 THEN "noScript"
  ELSE "run"

SaveAnalysisPropagates(storageOk) ==
  IF storageOk THEN "resolved" ELSE "rejected"

\* saveAnalysis: try { ensureDir; writeJson } catch { console.error }
SaveAnalysisSettles(storageOk) == "resolved"

LogFixAttemptPropagates(storageOk) ==
  IF storageOk THEN "resolved" ELSE "rejected"

\* logFixAttempt: try { ensureDir; writeJson } catch { console.error }
LogFixAttemptSettles(storageOk) == "resolved"

\* log.length > 1000 ? log.substring(0, 1000) + '...' : log; every log of
\* Logs is shorter than 1000 characters
LogExcerpt(l) == l

Resolved(value) == [settled |-> "resolved", value |-> value]

Rejected(error) == [settled |-> "rejected", value |-> error]

\* The arguments the callers of the Manager pass.
ManagerLogs ==
  { << >>,
    << "JavaScript heap out of memory", "flaky test" >> }

SuggestionOf(type, severity) ==
  SuggestionFor(DEFAULT_SELF_HEALING_OPTIONS, FailureOf(type, severity))

\* The dependency suggestion of suggestFixes (a manual fix, a scripted one,
\* a manual one) with a second scripted fix appended by the caller.
ScriptedSuggestion ==
  [SuggestionOf("dependency", "high") EXCEPT !.fixes = @ \o << COMMON_FIXES[6] >>]

\* Suggestions as suggestFixes builds them (no script among the test fixes),
\* and suggestions a caller builds itself: scripts with the flag set, scripts
\* with the flag cleared, the flag set without any script.
FixSuggestions ==
  { SuggestionOf("test", "medium"),
    ScriptedSuggestion,
    [ScriptedSuggestion EXCEPT !.autoFixPossible = FALSE],
    [SuggestionOf("test", "medium") EXCEPT !.autoFixPossible = TRUE] }

\* failures = this.analyzer.analyzeFailure(log) and suggestions =
\* this.analyzer.suggestFixes(failures), tabulated by platform and log
AnalysisOf ==
  [p \in Platforms |->
     [l \in ManagerLogs |->
        [failures |-> AnalyzeFailure([platform |-> p], l),
         suggestions |->
           SuggestFixes([platform |-> p], AnalyzeFailure([platform |-> p], l))]]]

\* a script either comes to an end or blocks for ever
ProcBehaviours == {"exits", "hangs"}

\* a call may start once the calls before it have
MayStart(c) ==
  /\ calls[c].op = "none"
  /\ \A d \in Calls : d < c => calls[d].op # "none"

\* SelfHealingManager.analyzeFailure up to `await this.saveAnalysis(...)`
CallManagerAnalyzeFailure(c) ==
  \E l \in ManagerLogs :
    /\ MayStart(c)
    /\ calls' = [calls EXCEPT ![c] =
         [@ EXCEPT !.op = "analyzeFailure", !.arg = l, !.pc = "saveAnalysis",
                   !.locals = AnalysisOf[options.platform][l]]]
    /\ catalogs' =
         CatalogsAfterSuggest(CatalogsAfterAnalyze(catalogs, options), options,
                              AnalysisOf[options.platform][l].failures, 1)
    /\ UNCHANGED <<returned, analyzerVars, confVars, reportVars, tmp, history, procs, storageFailed, now>>

\* saveAnalysis, then the return of analyzeFailure
SaveAnalysis(c) ==
  \E storageOk \in BOOLEAN :
    /\ calls[c].pc = "saveAnalysis"
    /\ history' =
         IF storageOk
           THEN WriteFileTo(history, AnalysisFileName(now),
                  [by |-> c, timestamp |-> now, platform |-> options.platform,
                   failures |-> calls[c].locals.failures,
                   suggestions |-> calls[c].locals.suggestions,
                   logExcerpt |-> LogExcerpt(calls[c].arg)])
           ELSE history
    /\ calls' = [calls EXCEPT ![c] =
         [@ EXCEPT !.pc = "returned",
                   !.result =
                     IF SaveAnalysisSettles(storageOk) = "resolved"
                       THEN Resolved(calls[c].locals)
                       ELSE Rejected("storage error")]]
    /\ storageFailed' = (storageFailed \/ ~storageOk)
    /\ UNCHANGED <<catalogVars, analyzerVars, confVars, reportVars, tmp, procs, now>>

\* attemptFix up to `await fs.writeFile(scriptFile, fix.fixScript)`, for a
\* caller that holds the suggestions offered
CallAttemptFixOf(c, offered) ==
  \E suggestion \in offered :
    /\ MayStart(c)
    /\ calls' = [calls EXCEPT ![c] =
         CASE AttemptFixEntry(suggestion) = "noAutoFix" ->
                [@ EXCEPT !.op = "attemptFix", !.arg = suggestion,
                          !.pc = "returned",
                          !.result = Resolved(
                            [success |-> FALSE,
                             message |-> <<"No automatic fix available for this failure">>,
                             output |-> Undefined, error |-> Undefined])]
           [] AttemptFixEntry(suggestion) = "noScript" ->
                [@ EXCEPT !.op = "attemptFix", !.arg = suggestion,
                          !.pc = "returned",
                          !.result = Resolved(
                            [success |-> FALSE,
                             message |-> <<"No fix script available">>,
                             output |-> Undefined, error |-> Undefined])]
           [] OTHER ->
                [@ EXCEPT !.op = "attemptFix", !.arg = suggestion,
                          !.pc = "writeFile",
                          !.locals =
                            suggestion.fixes[FindScriptFix(suggestion.fixes, 1)],
                          !.scriptFile = ScriptFileName(now)]]
    /\ UNCHANGED <<catalogVars, analyzerVars, confVars, reportVars, tmp, history, procs, storageFailed, now>>

CallAttemptFix(c) == CallAttemptFixOf(c, FixSuggestions)

\* the catch block is entered with this error
Caught(c, error) == [calls EXCEPT ![c] = [@ EXCEPT !.pc = "logFailure", !.err = error]]

\* fs.writeFile settles; a file of that name is overwritten.  The writer is
\* recorded beside the content to tell the calls' files apart.
WriteFile(c) ==
  \E ok \in BOOLEAN :
    /\ calls[c].pc = "writeFile"
    /\ IF ok
         THEN /\ tmp' = WriteFileTo(tmp, calls[c].scriptFile,
                                    [content |-> calls[c].locals.fixScript,
                                     writer |-> c])
              /\ calls' = [calls EXCEPT ![c] =
                             [@ EXCEPT !.pc = "chmod", !.wrote = TRUE]]
         ELSE /\ tmp' = tmp
              /\ calls' = Caught(c, "EACCES: open")
    /\ UNCHANGED <<catalogVars, analyzerVars, confVars, reportVars, history, procs, storageFailed, now>>

\* fs.chmod settles; it cannot succeed on a file that is gone
Chmod(c) ==
  \E ok \in BOOLEAN :
    /\ calls[c].pc = "chmod"
    /\ ok => calls[c].scriptFile \in DOMAIN tmp
    /\ calls' = IF ok THEN [calls EXCEPT ![c] = [@ EXCEPT !.pc = "exec"]]
                      ELSE Caught(c, "chmod failed")
    /\ UNCHANGED <<catalogVars, analyzerVars, confVars, reportVars, tmp, history, procs, storageFailed, now>>

\* exec(`bash "${scriptFile}"`, { cwd }): bash starts and reads whatever the
\* file holds now; no timeout is passed, so a script that blocks is never
\* killed
Exec(c) ==
  \E b \in ProcBehaviours :
    /\ calls[c].pc = "exec"
    /\ calls[c].scriptFile \notin DOMAIN tmp => b = "exits"
    /\ procs' = procs \cup
         {[call |-> c, file |-> calls[c].scriptFile,
           found |-> calls[c].scriptFile \in DOMAIN tmp,
           script |-> IF calls[c].scriptFile \in DOMAIN tmp
                        THEN tmp[calls[c].scriptFile]
                        ELSE [content |-> "", writer |-> 0]]}
    /\ calls' = [calls EXCEPT ![c] = [@ EXCEPT !.pc = "running", !.proc = b]]
    /\ UNCHANGED <<catalogVars, analyzerVars, confVars, reportVars, tmp, history, storageFailed, now>>

\* the subprocess exits and execAsync settles; bash exits with 127 when it
\* could not read the script
ProcExit(c) ==
  \E code \in {0, 1} :
    /\ calls[c].pc = "running"
    /\ calls[c].proc = "exits"
    /\ (\E p \in procs : p.call = c /\ ~p.found) => code = 1
    /\ calls' = IF code = 0
                  THEN [calls EXCEPT ![c] =
                          [@ EXCEPT !.pc = "remove", !.stdout = "stdout",
                                    !.stderr = "stderr"]]
                  ELSE Caught(c, "Command failed")
    /\ UNCHANGED <<catalogVars, analyzerVars, confVars, reportVars, tmp, history, procs, storageFailed,
                   now>>

\* fs.remove settles; removing a file that is gone succeeds
Remove(c) ==
  \E ok \in BOOLEAN :
    /\ calls[c].pc = "remove"
    /\ IF ok
         THEN /\ tmp' = RemoveFrom(tmp, calls[c].scriptFile)
              /\ calls' = [calls EXCEPT ![c] = [@ EXCEPT !.pc = "logSuccess"]]
         ELSE /\ tmp' = tmp
              /\ calls' = Caught(c, "EBUSY: unlink")
    /\ UNCHANGED <<catalogVars, analyzerVars, confVars, reportVars, history, procs, storageFailed, now>>

FixAttemptRecord(c, success, output, error) ==
  [by |-> c, timestamp |-> now, platform |-> options.platform,
   failure |-> calls[c].arg.failure, fixes |-> calls[c].arg.fixes,
   success |-> success, output |-> output, error |-> error]

\* logFixAttempt(suggestion, true, stdout, stderr), then the return
LogSuccess(c) ==
  \E storageOk \in BOOLEAN :
    /\ calls[c].pc = "logSuccess"
    /\ history' =
         IF storageOk
           THEN WriteFileTo(history, FixAttemptFileName(now),
                  FixAttemptRecord(c, TRUE, calls[c].stdout, calls[c].stderr))
           ELSE history
    /\ calls' =
         IF LogFixAttemptSettles(storageOk) = "resolved"
           THEN [calls EXCEPT ![c] =
                   [@ EXCEPT !.pc = "returned",
                             !.result = Resolved(
                               [success |-> TRUE,
                                message |-> <<"Successfully applied fix: ",
                                              calls[c].locals.description>>,
                                output |-> calls[c].stdout,
                                error |-> calls[c].stderr])]]
           ELSE [calls EXCEPT ![c] =
                   [@ EXCEPT !.pc = "logFailure",
                             !.err = "storage error"]]
    /\ storageFailed' = (storageFailed \/ ~storageOk)
    /\ UNCHANGED <<catalogVars, analyzerVars, confVars, reportVars, tmp, procs, now>>

\* the catch block: logFixAttempt(suggestion, false, '', message), then the
\* return
LogFailure(c) ==
  \E storageOk \in BOOLEAN :
    /\ calls[c].pc = "logFailure"
    /\ history' =
         IF storageOk
           THEN WriteFileTo(history, FixAttemptFileName(now),
                  FixAttemptRecord(c, FALSE, "", calls[c].err))
           ELSE history
    /\ calls' = [calls EXCEPT ![c] =
         [@ EXCEPT !.pc = "returned",
                   !.result =
                     IF LogFixAttemptSettles(storageOk) = "resolved"
                       THEN Resolved(
                              [success |-> FALSE,
                               message |-> <<"Failed to apply fix: ",
                                             calls[c].err>>,
                               output |-> Undefined,
                               error |-> calls[c].err])
                       ELSE Rejected("storage error")]]
    /\ storageFailed' = (storageFailed \/ ~storageOk)
    /\ UNCHANGED <<catalogVars, analyzerVars, confVars, reportVars, tmp, procs, now>>

\* a millisecond passes
Tick ==
  /\ now < MaxClock
  /\ now' = now + 1
  /\ UNCHANGED <<catalogVars, analyzerVars, confVars, reportVars, calls, tmp, history, procs,
                 storageFailed>>

\* the steps that resume a call
Resume(c) ==
  \/ SaveAnalysis(c)
  \/ WriteFile(c)
  \/ Chmod(c)
  \/ Exec(c)
  \/ ProcExit(c)
  \/ Remove(c)
  \/ LogSuccess(c)
  \/ LogFailure(c)

Init ==
  /\ options = DEFAULT_SELF_HEALING_OPTIONS
  /\ phase = "constructed"
  /\ log = << >>
  /\ failures = << >>
  /\ suggestions = << >>
  /\ confIn = Undefined
  /\ confOut = 0
  /\ ManagerInit

Next ==
  \/ \E c \in Calls : CallManagerAnalyzeFailure(c)
  \/ \E c \in Calls : CallAttemptFix(c)
  \/ \E c \in Calls : Resume(c)
  \/ Tick

Spec == Init /\ [][Next]_vars

\* The event loop resumes a call whose awaited operation has settled.
FairSpec == Spec /\ \A c \in Calls : WF_vars(Resume(c))

(***************************************************************************)
(* SpecTwoScripts: the Manager with callers that also hold the build       *)
(* suggestion of suggestFixes, whose script differs from the dependency    *)
(* script, so that the calls in flight run different scripts.              *)
(***************************************************************************)
TwoScriptSuggestions == FixSuggestions \cup {SuggestionOf("build", "high")}

CallAttemptFixTwoScripts(c) == CallAttemptFixOf(c, TwoScriptSuggestions)

NextTwoScripts ==
  \/ \E c \in Calls : CallManagerAnalyzeFailure(c)
  \/ \E c \in Calls : CallAttemptFixTwoScripts(c)
  \/ \E c \in Calls : Resume(c)
  \/ Tick

SpecTwoScripts == Init /\ [][NextTwoScripts]_vars

(***************************************************************************)
(* generateSelfHealingReport.  The pipeline text is a sequence of lines;   *)
(* String.prototype.includes is tabulated per line (no marker contains a   *)
(* line break, and none matches across the break between two lines).       *)
(***************************************************************************)
MaxPipelineLines == 2

PipelineLines ==
  { "steps:",
    "continue-on-error: true",
    "retry: 2",
    "uses: actions/cache@v3",
    "cache:",
    "when: on_fail",
    "no_output_timeout: 10m",
    "save_cache:",
    "restore_cache:",
    "RetryCount: 3",
    "RetryMode: standard",
    "TimeoutInMinutes: 5",
    "time-out: 30" }

LineIncludes ==
  "continue-on-error" :> {"continue-on-error: true"}
  @@ "retry" :> {"retry: 2"}
  @@ "actions/cache" :> {"uses: actions/cache@v3"}
  @@ "retry:" :> {"retry: 2"}
  @@ "cache:" :> {"cache:", "save_cache:", "restore_cache:"}
  @@ "when: on_fail" :> {"when: on_fail"}
  @@ "no_output_timeout:" :> {"no_output_timeout: 10m"}
  @@ "save_cache" :> {"save_cache:"}
  @@ "restore_cache" :> {"restore_cache:"}
  @@ "RetryCount" :> {"RetryCount: 3"}
  @@ "RetryMode" :> {"RetryMode: standard"}
  @@ "timeout" :> {"no_output_timeout: 10m"}
  @@ "Timeout" :> {"TimeoutInMinutes: 5"}
  @@ "time-out" :> {"time-out: 30"}
  @@ "TimeoutInMinutes" :> {"TimeoutInMinutes: 5"}

Pipelines == UNION {[1..n -> PipelineLines] : n \in 0..MaxPipelineLines}

\* pipelineContent.includes(needle)
Includes(pipelineContent, needle) ==
  \E k \in 1..Len(pipelineContent) : pipelineContent[k] \in LineIncludes[needle]

\* one failed check: the vulnerability pushed, the penalty subtracted and the
\* recommendation pushed
Finding(type, description, severity, recommendation, penalty, advice) ==
  [vulnerability |-> [type |-> type, description |-> description,
                      severity |-> severity,
                      recommendation |-> recommendation],
   penalty |-> penalty, advice |-> advice]

MissingRetry(description, recommendation, advice) ==
  Finding("Missing Retry Mechanism", description, "Medium", recommendation,
          15, advice)

MissingCaching(recommendation) ==
  Finding("Missing Caching",
          "No caching mechanism found for dependencies or build artifacts",
          "Low", recommendation, 10,
          "Implement caching for dependencies and build artifacts")

MissingTimeout ==
  Finding("Missing Timeout Configuration",
          "No timeout configuration found for jobs or steps", "Low",
          "Add appropriate timeout configuration to prevent hanging jobs", 5,
          "Add timeout configuration for jobs and steps")

When(cond, finding) == IF cond THEN << finding >> ELSE << >>

\* switch (platform): the checks of each case, in order; no default case
PlatformFindings(platform, pc) ==
  CASE platform = "github" ->
         When(~Includes(pc, "continue-on-error") /\ ~Includes(pc, "retry"),
              MissingRetry(
                "No retry mechanism found for potentially flaky steps",
                "Add continue-on-error: true for non-critical steps or implement retry logic",
                "Add retry mechanisms for potentially flaky steps"))
         \o When(~Includes(pc, "actions/cache"),
                 MissingCaching(
                   "Use actions/cache to cache dependencies and build artifacts"))
    [] platform = "gitlab" ->
         When(~Includes(pc, "retry:"),
              MissingRetry(
                "No retry mechanism found for potentially flaky jobs",
                "Add retry configuration for jobs that might be flaky",
                "Add retry configuration for potentially flaky jobs"))
         \o When(~Includes(pc, "cache:"),
                 MissingCaching(
                   "Use GitLab CI caching to cache dependencies and build artifacts"))
    [] platform = "circleci" ->
         When(~Includes(pc, "when: on_fail")
                /\ ~Includes(pc, "no_output_timeout:"),
              MissingRetry(
                "No retry mechanism or failure handling found",
                "Add when: on_fail conditions or implement retry logic",
                "Add failure handling mechanisms"))
         \o When(~Includes(pc, "save_cache") /\ ~Includes(pc, "restore_cache"),
                 MissingCaching(
                   "Use CircleCI caching to cache dependencies and build artifacts"))
    [] platform = "aws" ->
         When(~Includes(pc, "RetryCount") /\ ~Includes(pc, "RetryMode"),
              MissingRetry(
                "No retry mechanism found for potentially flaky steps",
                "Add retry configuration for CodeBuild projects or Lambda functions",
                "Add retry configuration for potentially flaky steps"))
    [] OTHER -> << >>

TimeoutFindingsInverted(pc) ==
  When(\/ Includes(pc, "timeout")
       \/ Includes(pc, "Timeout")
       \/ Includes(pc, "time-out")
       \/ Includes(pc, "TimeoutInMinutes"),
       MissingTimeout)

\* the check common to all platforms
TimeoutFindings(pc) ==
  When(/\ ~Includes(pc, "timeout")
       /\ ~Includes(pc, "Timeout")
       /\ ~Includes(pc, "time-out")
       /\ ~Includes(pc, "TimeoutInMinutes"),
       MissingTimeout)

RECURSIVE TotalPenalty(_, _)
\* the sum of the penalties of findings[i..]
TotalPenalty(findings, i) ==
  IF i > Len(findings) THEN 0
  ELSE findings[i].penalty + TotalPenalty(findings, i + 1)

ReportOf(findings, score) ==
  [vulnerabilities |->
     [i \in 1..Len(findings) |-> findings[i].vulnerability],
   recommendations |-> [i \in 1..Len(findings) |-> findings[i].advice],
   selfHealingScore |-> score]

GenerateSelfHealingReportAdding(platform, pc) ==
  LET findings == PlatformFindings(platform, pc) \o TimeoutFindings(pc)
  IN  ReportOf(findings, 100 + TotalPenalty(findings, 1))

GenerateSelfHealingReport(platform, pc) ==
  LET findings == PlatformFindings(platform, pc) \o TimeoutFindings(pc)
  IN  ReportOf(findings,
               Max(0, Min(100, 100 - TotalPenalty(findings, 1))))

(***************************************************************************)
(* SpecReport: a Manager whose caller passes any platform, one outside     *)
(* CIPlatform included, and any pipeline text of Pipelines to              *)
(* generateSelfHealingReport.                                              *)
(***************************************************************************)
CallGenerateSelfHealingReportOf(pipelines) ==
  \E platform \in Platforms, pc \in pipelines :
    /\ phase = "constructed"
    /\ reportIn' = [platform |-> platform, pipelineContent |-> pc]
    /\ reportOut' = GenerateSelfHealingReport(platform, pc)
    /\ phase' = "reported"
    /\ UNCHANGED <<catalogVars, options, log, failures, suggestions, confVars, managerVars>>

\* the caller passes any pipeline of Pipelines
CallGenerateSelfHealingReport == CallGenerateSelfHealingReportOf(Pipelines)

NextReport == CallGenerateSelfHealingReport

SpecReport == Init /\ [][NextReport]_vars

(***************************************************************************)
(* SpecHistory: several FailureAnalyzer instances in one program, two of   *)
(* them constructed with the same options; their caller makes up to        *)
(* MaxReturns calls of analyzeFailure and suggestFixes in any order, on    *)
(* any instance.  Both methods are synchronous: a call is one step.        *)
(***************************************************************************)
MaxReturns == 3

\* the options of the instances constructed
Analyzers ==
  << [platform |-> "github"], [platform |-> "github"], [platform |-> "gitlab"] >>

HistoryLogs ==
  { << "Invalid workflow file: AccessDenied" >>,
    << "flaky test", "connect ETIMEDOUT" >> }

AnalyzeOn(a, l) ==
  /\ Len(returned) < MaxReturns
  /\ returned' =
       Append(returned,
              [op |-> "analyzeFailure", analyzer |-> a, arg |-> l,
               result |-> AnalyzeFailureOn(catalogs, Analyzers[a], l)])
  /\ catalogs' = CatalogsAfterAnalyze(catalogs, Analyzers[a])
  /\ UNCHANGED <<analyzerVars, confVars, managerVars, reportVars>>

\* suggestFixes on the list an earlier analyzeFailure returned
SuggestOn(a, k) ==
  /\ Len(returned) < MaxReturns
  /\ k \in 1..Len(returned)
  /\ returned[k].op = "analyzeFailure"
  /\ returned' =
       Append(returned,
              [op |-> "suggestFixes", analyzer |-> a, arg |-> returned[k].result,
               result |->
                 SuggestFixesOn(catalogs, Analyzers[a], returned[k].result, 1)])
  /\ catalogs' =
       CatalogsAfterSuggest(catalogs, Analyzers[a], returned[k].result, 1)
  /\ UNCHANGED <<analyzerVars, confVars, managerVars, reportVars>>

NextHistory ==
  \/ \E a \in DOMAIN Analyzers, l \in HistoryLogs : AnalyzeOn(a, l)
  \/ \E a \in DOMAIN Analyzers, k \in 1..MaxReturns : SuggestOn(a, k)

SpecHistory == Init /\ [][NextHistory]_vars

(***************************************************************************)
(* SpecOperations: every operation of the analyzer and of the Manager in   *)
(* one program: analyzeFailure and suggestFixes on a log of one line,      *)
(* generateSelfHealingReport on a pipeline of at most one line, and one    *)
(* Manager call (analyzeFailure or attemptFix) run to its return.          *)
(***************************************************************************)
OneLineLogs == {<< line >> : line \in LogLines}

ShortPipelines == {<< >>} \cup {<< line >> : line \in PipelineLines}

NextOperations ==
  \/ CallAnalyzeFailureOf(OneLineLogs)
  \/ CallSuggestFixes
  \/ CallGenerateSelfHealingReportOf(ShortPipelines)
  \/ CallManagerAnalyzeFailure(1)
  \/ CallAttemptFix(1)
  \/ Resume(1)
  \/ Tick

SpecOperations == Init /\ [][NextOperations]_vars

(***************************************************************************)
(* Claims about FailureAnalyzer.analyzeFailure (SpecAnalyzer).             *)
(***************************************************************************)
Analyzed == phase \in {"analyzed", "suggested"}

\* the number of (rule, matcher) pairs that fire against log
FiredPairs ==
  UNION {{<<i, j>> : j \in {m \in 1..Len(PatternsFor(options)[i].patterns) :
                             \E k \in 1..Len(log) :
                               RegexExec(PatternsFor(options)[i].patterns[m],
                                         log[k]) # NoMatch}} :
         i \in 1..Len(PatternsFor(options))}

FiredCount == Cardinality(FiredPairs)

\* C1: for every log, the empty one included, and every platform,
\* analyzeFailure returns a non-empty list; when no matcher of any applicable
\* rule fires, the list is exactly one failure of type unknown and severity
\* medium.
C1_NonEmptyUnknownFallback ==
  Analyzed =>
    /\ Len(failures) >= 1
    /\ FiredCount = 0 =>
         /\ Len(failures) = 1
         /\ failures[1].type = "unknown"
         /\ failures[1].severity = "medium"

C1_Witness ==
  /\ Analyzed
  /\ log = << "all checks passed" >>
  /\ FiredCount = 0
  /\ Len(failures) = 1
  /\ failures[1].type = "unknown"

Rank(severity) ==
  CASE severity = "critical" -> 0
    [] severity = "high" -> 1
    [] severity = "medium" -> 2
    [] severity = "low" -> 3

\* the failures of one severity, in the order they stand in fs
OfSeverity(fs, s) == SelectSeq(fs, LAMBDA f : f.severity = s)

\* C2: the returned list is ordered Critical, High, Medium, Low, so its first
\* element is the most severe of all fired matchers, and failures of equal
\* severity stand in rule-evaluation order (platform-agnostic rules in table
\* order, then the overlay, matchers in list order within a rule).
C2_SortedBySeverityStable ==
  Analyzed =>
    LET fired == DetectFailures(options, log)
    IN  /\ \A i, j \in 1..Len(failures) :
             i < j => Rank(failures[i].severity) <= Rank(failures[j].severity)
        /\ \A s \in FailureSeverity :
             OfSeverity(failures, s) = OfSeverity(fired, s)
        /\ \A k \in 1..Len(fired) :
             Rank(failures[1].severity) <= Rank(fired[k].severity)

\* an out-of-memory line after an assertion line: Resource/High comes before
\* Test/Medium, and the two Resource matchers keep their list order
C2_Witness ==
  /\ Analyzed
  /\ log = << "assertion failed at src/app.ts:42:7",
            "JavaScript heap out of memory" >>
  /\ Len(failures) = 3
  /\ failures[1].type = "resource" /\ failures[1].severity = "high"
  /\ failures[1].matchedPattern = "/out\\s+of\\s+memory/i"
  /\ failures[2].matchedPattern = "/JavaScript\\s+heap\\s+out\\s+of\\s+memory/i"
  /\ failures[3].type = "test" /\ failures[3].severity = "medium"

(***************************************************************************)
(* Claims about calculateConfidence (SpecConfidence).                      *)
(***************************************************************************)
Calculated == phase = "calculated"

Clamp(lo, hi, x) == IF x < lo THEN lo ELSE IF x > hi THEN hi ELSE x

\* the confidence as the specification words it
StatedConfidence(failure, fixes) ==
  Clamp(0, 100,
    (CASE failure.severity = "critical" -> 90
       [] failure.severity = "high" -> 75
       [] failure.severity = "medium" -> 60
       [] failure.severity = "low" -> 40
       [] OTHER -> 30)
    - (IF Len(fixes) = 0 THEN 20 ELSE 0)
    - (IF Len(fixes) > 3 THEN 10 ELSE 0)
    - (IF failure.type = "unknown" THEN 30 ELSE 0)
    + (IF \E i \in 1..Len(fixes) : fixes[i].platformSpecific THEN 10 ELSE 0))

\* C3: the confidence equals clamp to [0,100] of: base by severity (90, 75,
\* 60, 40, anything else 30), minus 20 for an empty fix list, minus 10 for
\* more than 3 fixes, minus 30 for type unknown, plus 10 if a fix is
\* platform-specific.
C3_ConfidenceFormula ==
  Calculated => confOut = StatedConfidence(confIn.failure, confIn.fixes)

\* three fixes, none platform-specific: no deduction for the count
C3_Witness ==
  /\ Calculated
  /\ Len(confIn.fixes) = 3
  /\ confIn.failure.severity = "high"
  /\ confIn.failure.type = "build"
  /\ \A i \in 1..3 : ~confIn.fixes[i].platformSpecific
  /\ confOut = 75

\* C4: every confidence is an integer in [0,100]; a low-severity failure of
\* type unknown with no fix (40 - 20 - 30 = -10) gets exactly 0.
C4_ConfidenceClamped ==
  Calculated =>
    /\ confOut \in 0..100
    /\ (/\ confIn.failure.severity = "low"
        /\ confIn.failure.type = "unknown"
        /\ Len(confIn.fixes) = 0) => confOut = 0

C4_Witness ==
  /\ Calculated
  /\ confIn.failure.severity = "low"
  /\ confIn.failure.type = "unknown"
  /\ Len(confIn.fixes) = 0
  /\ RawConfidence(confIn.failure, confIn.fixes) = -10
  /\ confOut = 0

(***************************************************************************)
(* Claims about SelfHealingManager (Spec, FairSpec).                       *)
(***************************************************************************)
IsAttemptFix(c) == calls[c].op = "attemptFix"

IsAnalyze(c) == calls[c].op = "analyzeFailure"

Returned(c) == calls[c].pc = "returned"

\* C5: attemptFix on a suggestion whose autoFixPossible is false returns
\* success=false with an explanatory message, and the call launches no
\* subprocess and creates no script file.
C5_NoAutoFixFailsFast ==
  \A c \in Calls :
    (IsAttemptFix(c) /\ ~calls[c].arg.autoFixPossible) =>
      /\ Returned(c)
      /\ calls[c].result.settled = "resolved"
      /\ calls[c].result.value.success = FALSE
      /\ calls[c].result.value.message # << >>
      /\ calls[c].result.value.message[1] # ""
      /\ ~calls[c].wrote
      /\ \A p \in procs : p.call # c
      /\ \A f \in DOMAIN tmp : tmp[f].writer # c

\* the flag is false although a fix carries a script
C5_Witness ==
  \E c \in Calls :
    /\ IsAttemptFix(c)
    /\ Returned(c)
    /\ ~calls[c].arg.autoFixPossible
    /\ FindScriptFix(calls[c].arg.fixes, 1) # 0
    /\ calls[c].result.value.success = FALSE

\* C6: whenever attemptFix has materialized a script file, the file no
\* longer exists when attemptFix returns, on every exit path.
C6_ScriptRemovedOnReturn ==
  \A c \in Calls :
    (IsAttemptFix(c) /\ Returned(c) /\ calls[c].wrote) =>
      calls[c].scriptFile \notin DOMAIN tmp

\* C7: attemptFix always eventually returns.
C7_AttemptFixReturns ==
  \A c \in Calls : IsAttemptFix(c) ~> Returned(c)

\* C8: attemptFix never rejects: a failure of writing, chmod, execution or
\* removal gives a returned object with success=false and error populated,
\* and a failure of the audit record leaves the result as it would be.
C8_AttemptFixNeverRejects ==
  \A c \in Calls :
    (IsAttemptFix(c) /\ Returned(c)) =>
      /\ calls[c].result.settled = "resolved"
      /\ calls[c].err # "" =>
           /\ calls[c].result.value.success = FALSE
           /\ calls[c].result.value.error = calls[c].err
      /\ (calls[c].err = "" /\ calls[c].wrote) =>
           /\ calls[c].result.value.success = TRUE
           /\ calls[c].result.value.output = "stdout"
      /\ calls[c].err \in {"", "EACCES: open", "chmod failed",
                            "Command failed", "EBUSY: unlink"}

\* the removal fails and then the audit record fails too
C8_Witness ==
  \E c \in Calls :
    /\ IsAttemptFix(c)
    /\ Returned(c)
    /\ calls[c].err = "EBUSY: unlink"
    /\ storageFailed
    /\ DOMAIN history = {}
    /\ calls[c].result.settled = "resolved"
    /\ calls[c].result.value.success = FALSE

\* what the analyzer gives for the logs the Manager is passed
ExpectedAnalysis ==
  [l \in ManagerLogs |->
     [failures |-> AnalyzeFailure(DEFAULT_SELF_HEALING_OPTIONS, l),
      suggestions |->
        SuggestFixes(DEFAULT_SELF_HEALING_OPTIONS,
                     AnalyzeFailure(DEFAULT_SELF_HEALING_OPTIONS, l))]]

\* C9: when writing the history record fails, analyzeFailure still returns
\* the {failures, suggestions} it returns when the write succeeds, and does
\* not throw.
C9_AnalysisSurvivesStorageFailure ==
  \A c \in Calls :
    (IsAnalyze(c) /\ Returned(c)) =>
      /\ calls[c].result.settled = "resolved"
      /\ calls[c].result.value = ExpectedAnalysis[calls[c].arg]

C9_Witness ==
  \E c \in Calls :
    /\ IsAnalyze(c)
    /\ Returned(c)
    /\ storageFailed
    /\ DOMAIN history = {}
    /\ calls[c].arg # << >>
    /\ calls[c].result.settled = "resolved"
    /\ Len(calls[c].result.value.failures) = 3

RecordsOfKind(kind) == {name \in DOMAIN history : name[1] = kind}

ReturnedCalls(op) == {c \in Calls : calls[c].op = op /\ Returned(c)}

\* C10: when storage does not fail, the history holds exactly one analysis
\* record per analyzeFailure call and one fix-attempt record per attemptFix
\* call, whichever path the attemptFix call took.
C10_OneRecordPerCall ==
  (~storageFailed /\ \A c \in Calls : calls[c].op # "none" => Returned(c)) =>
    /\ Cardinality(RecordsOfKind("analysis"))
         = Cardinality(ReturnedCalls("analyzeFailure"))
    /\ Cardinality(RecordsOfKind("fix-attempt"))
         = Cardinality(ReturnedCalls("attemptFix"))

\* the calls that have returned after writing a record: every analyzeFailure,
\* and the attemptFix calls that went past the two early returns
Recorded(c) ==
  /\ Returned(c)
  /\ \/ IsAnalyze(c)
     \/ IsAttemptFix(c) /\ AttemptFixEntry(calls[c].arg) = "run"

\* C11: under any interleaving of analyzeFailure and attemptFix calls, no
\* call's record overwrites or is overwritten by another call's record: the
\* record every call wrote is still the one stored under its key.
C11_RecordsNeverOverwritten ==
  ~storageFailed =>
    \A c \in Calls :
      Recorded(c) => \E name \in DOMAIN history : history[name].by = c

(***************************************************************************)
(* Claims about generateSelfHealingReport (SpecReport).                    *)
(***************************************************************************)
Reported == phase = "reported"

VulnerabilityTypes(report) ==
  [i \in 1..Len(report.vulnerabilities) |-> report.vulnerabilities[i].type]

AllMissing ==
  << "Missing Retry Mechanism", "Missing Caching",
     "Missing Timeout Configuration" >>

\* C12: generateSelfHealingReport('github', '') returns selfHealingScore 70
\* and exactly three vulnerability entries: missing retry, missing caching,
\* missing timeout.
C12_GithubEmptyPipeline ==
  (Reported /\ reportIn.platform = "github"
            /\ reportIn.pipelineContent = << >>) =>
    /\ reportOut.selfHealingScore = 70
    /\ Len(reportOut.vulnerabilities) = 3
    /\ VulnerabilityTypes(reportOut) = AllMissing
    /\ Len(reportOut.recommendations) = 3

C12_Witness ==
  /\ Reported
  /\ reportIn.platform = "github"
  /\ reportIn.pipelineContent = << >>
  /\ reportOut.selfHealingScore = 100 - 15 - 10 - 5

\* C13: for every platform value, recognized or not, and every pipeline
\* text, the selfHealingScore is within [0,100].
C13_ScoreInRange ==
  Reported => reportOut.selfHealingScore \in 0..100

\* a text with no marker of any platform, for a platform the switch does not
\* know: only the timeout check applies
C13_Witness ==
  /\ Reported
  /\ reportIn.platform \notin CIPlatform
  /\ reportIn.pipelineContent = << "steps:" >>
  /\ reportOut.selfHealingScore = 95
  /\ Len(reportOut.vulnerabilities) = 1

\* C14: for each of github, aws, gitlab and circleci the report evaluates a
\* retry check (15), a caching check (10) and the timeout check (5), so an
\* empty pipeline text gives a retry, a caching and a timeout vulnerability
\* and score 70.
C14_EveryPlatformChecksRetryAndCaching ==
  (Reported /\ reportIn.platform \in CIPlatform
            /\ reportIn.pipelineContent = << >>) =>
    /\ VulnerabilityTypes(reportOut) = AllMissing
    /\ reportOut.selfHealingScore = 70

(***************************************************************************)
(* Further claims about FailureAnalyzer (SpecAnalyzer, SpecSuggest).       *)
(***************************************************************************)
\* what a failure produced for the matcher j of the rule i carries
Carries(f, rule, j) ==
  /\ f.type = rule.type
  /\ f.severity = rule.severity
  /\ f.description = rule.description
  /\ f.matchedPattern = rule.patterns[j]

\* C15: analyzeFailure produces exactly one failure for each (rule, matcher)
\* pair whose matcher fires and none for the pairs that do not fire; each
\* failure carries the type, severity and description of the matcher's rule.
C15_OneFailurePerFiredMatcher ==
  (Analyzed /\ FiredCount > 0) =>
    LET rules == PatternsFor(options)
        fired == FiredPairs
    IN  /\ Len(failures) = Cardinality(fired)
        /\ \A i \in 1..Len(rules) :
             \A j \in 1..Len(rules[i].patterns) :
               Cardinality({k \in 1..Len(failures) :
                              Carries(failures[k], rules[i], j)})
               = Cardinality({p \in fired :
                                /\ rules[p[1]].type = rules[i].type
                                /\ rules[p[1]].severity = rules[i].severity
                                /\ rules[p[1]].description = rules[i].description
                                /\ rules[p[1]].patterns[p[2]]
                                     = rules[i].patterns[j]})
        /\ \A k \in 1..Len(failures) :
             \E p \in fired : Carries(failures[k], rules[p[1]], p[2])

\* two matchers of the resource rule fire on one line, and a matcher of the
\* platform overlay on another
C15_Witness ==
  /\ Analyzed
  /\ options.platform = "github"
  /\ log = << "JavaScript heap out of memory",
            "Invalid workflow file: AccessDenied" >>
  /\ FiredCount = 3
  /\ Len(failures) = 3
  /\ failures[3].type = "configuration"

Suggested == phase = "suggested"

HasScript(fix) == fix.fixScript # ""

\* C16: suggestFixes returns a list of the length of its input whose i-th
\* suggestion has the i-th input failure as its failure; the empty list maps
\* to the empty list.
C16_OneSuggestionPerFailure ==
  Suggested =>
    /\ Len(suggestions) = Len(failures)
    /\ \A i \in 1..Len(failures) : suggestions[i].failure = failures[i]

\* a failure without any fix before one with fixes
C16_Witness ==
  /\ Suggested
  /\ Len(failures) = 2
  /\ failures[1].type = "unknown"
  /\ failures[2].type = "network"
  /\ Len(suggestions) = 2
  /\ Len(suggestions[1].fixes) = 0
  /\ suggestions[2].failure.type = "network"

\* C17: in every suggestion of suggestFixes, autoFixPossible is true if and
\* only if at least one fix of the suggestion carries a script.
C17_AutoFixIffScript ==
  Suggested =>
    \A i \in 1..Len(suggestions) :
      suggestions[i].autoFixPossible
        <=> \E k \in 1..Len(suggestions[i].fixes) :
              HasScript(suggestions[i].fixes[k])

\* fixes without a script for one failure, a scripted fix for the other
C17_Witness ==
  /\ Suggested
  /\ Len(suggestions) = 2
  /\ suggestions[1].failure.type = "test"
  /\ Len(suggestions[1].fixes) > 0
  /\ ~suggestions[1].autoFixPossible
  /\ suggestions[2].failure.type = "dependency"
  /\ suggestions[2].autoFixPossible
  /\ ~HasScript(suggestions[2].fixes[1])

\* C18: for every failure of type unknown, whatever its severity and the
\* platform, the confidence suggestFixes returns is at most 60.
C18_UnknownConfidenceAtMost60 ==
  Suggested =>
    \A i \in 1..Len(suggestions) :
      failures[i].type = "unknown" => suggestions[i].confidence <= 60

C18_Witness ==
  /\ Suggested
  /\ Len(suggestions) = 1
  /\ failures[1].type = "unknown"
  /\ failures[1].severity = "critical"
  /\ suggestions[1].confidence = 40

MoreSevere(s, t) == Rank(s) < Rank(t)

\* C19: with type and fix list held fixed, a more severe failure never gets
\* a lower confidence, and a critical failure with one fix gets a strictly
\* higher confidence than the same failure of severity low.
C19_ConfidenceMonotonicInSeverity ==
  (Calculated /\ confIn.failure.severity \in FailureSeverity) =>
    /\ \A s \in FailureSeverity :
         MoreSevere(s, confIn.failure.severity) =>
           CalculateConfidence([confIn.failure EXCEPT !.severity = s],
                               confIn.fixes) >= confOut
    /\ (confIn.failure.severity = "low" /\ Len(confIn.fixes) = 1) =>
         CalculateConfidence([confIn.failure EXCEPT !.severity = "critical"],
                             confIn.fixes) > confOut

\* low severity, one fix: 40 against the 90 of critical
C19_Witness ==
  /\ Calculated
  /\ confIn.failure.severity = "low"
  /\ confIn.failure.type = "network"
  /\ Len(confIn.fixes) = 1
  /\ ~confIn.fixes[1].platformSpecific
  /\ confOut = 40
  /\ CalculateConfidence([confIn.failure EXCEPT !.severity = "critical"],
                         confIn.fixes) = 90

JestFailureLog ==
  << "FAIL src/x.test.js ... expect(fn()).toHaveBeenCalledTimes(1)" >>

\* C20: for the log "FAIL src/x.test.js ... expect(fn()).toHaveBeenCalledTimes(1)"
\* analyzeFailure produces exactly one failure, of type test and severity
\* medium, whose message is the matched excerpt; suggestFixes on it returns
\* autoFixPossible = false and a confidence in [40,70].
C20_JestFailureIsTestMedium ==
  (Suggested /\ log = JestFailureLog) =>
    /\ Len(failures) = 1
    /\ failures[1].type = "test"
    /\ failures[1].severity = "medium"
    /\ failures[1].message = LogMatch(log, failures[1].matchedPattern)
    /\ Len(suggestions) = 1
    /\ ~suggestions[1].autoFixPossible
    /\ suggestions[1].confidence \in 40..70

NpmResolveLog ==
  << "npm ERR! code ERESOLVE ... could not resolve dependency tree" >>

\* C21: for the log "npm ERR! code ERESOLVE ... could not resolve dependency
\* tree" analyzeFailure produces a dependency/high failure, and the
\* suggestion for it holds at least one fix carrying a script, so
\* autoFixPossible is true.
C21_NpmResolveIsDependencyHigh ==
  (Suggested /\ log = NpmResolveLog) =>
    \E i \in 1..Len(failures) :
      /\ failures[i].type = "dependency"
      /\ failures[i].severity = "high"
      /\ suggestions[i].failure = failures[i]
      /\ \E k \in 1..Len(suggestions[i].fixes) :
           HasScript(suggestions[i].fixes[k])
      /\ suggestions[i].autoFixPossible

C21_Witness ==
  /\ Suggested
  /\ log = NpmResolveLog
  /\ Len(failures) = 1
  /\ failures[1].message = "npm ERR! code ERESOLVE"
  /\ suggestions[1].autoFixPossible
  /\ suggestions[1].fixes[2].fixScript = "# For npm"

(***************************************************************************)
(* Further claims about SelfHealingManager.attemptFix (SpecTwoScripts).    *)
(***************************************************************************)
\* k is the place of the first fix of fixes that carries a script
FirstScripted(fixes, k) ==
  /\ k \in 1..Len(fixes)
  /\ HasScript(fixes[k])
  /\ \A j \in 1..(k - 1) : ~HasScript(fixes[j])

ProcsOf(c) == {p \in procs : p.call = c}

\* C22: the script attemptFix executes is that of the first fix of
\* suggestion.fixes that carries a script, and no other fix is executed; when
\* autoFixPossible is true and no fix carries a script, attemptFix returns
\* success=false without executing anything.
C22_ExecutesFirstScriptedFix ==
  \A c \in Calls :
    IsAttemptFix(c) =>
      /\ Cardinality(ProcsOf(c)) <= 1
      /\ \A p \in ProcsOf(c) :
           p.found =>
             \E k \in 1..Len(calls[c].arg.fixes) :
               /\ FirstScripted(calls[c].arg.fixes, k)
               /\ p.script.content = calls[c].arg.fixes[k].fixScript
      /\ (/\ calls[c].arg.autoFixPossible
          /\ \A k \in 1..Len(calls[c].arg.fixes) :
               ~HasScript(calls[c].arg.fixes[k])) =>
           /\ Returned(c)
           /\ calls[c].result.value.success = FALSE
           /\ ProcsOf(c) = {}
           /\ ~calls[c].wrote

(***************************************************************************)
(* Claims about the catalogues the analyzer evaluates (SpecAnalyzer,       *)
(* SpecSuggest).                                                           *)
(***************************************************************************)
\* the failures of the platform-agnostic rules and those of the overlay of
\* the platform, each in evaluation order
CommonFired == MatchRules(log, FAILURE_PATTERNS, 1)

OverlayFired ==
  IF options.platform \in DOMAIN PLATFORM_FAILURE_PATTERNS
    THEN MatchRules(log, PLATFORM_FAILURE_PATTERNS[options.platform], 1)
    ELSE << >>

\* C23: the rule list evaluated for a platform is the platform-agnostic rule
\* set followed by the platform's overlay, in that order; for a platform
\* without overlay it is exactly the platform-agnostic set and analyzeFailure
\* raises no error.
C23_CommonRulesThenOverlay ==
  Analyzed =>
    /\ options.platform \notin CIPlatform => OverlayFired = << >>
    /\ Len(CommonFired) + Len(OverlayFired) > 0 =>
         \A s \in FailureSeverity :
           OfSeverity(failures, s)
             = OfSeverity(CommonFired, s) \o OfSeverity(OverlayFired, s)
    /\ Len(CommonFired) + Len(OverlayFired) = 0 =>
         failures = << UnknownFailure >>

\* a log that fires two platform-agnostic rules and one overlay rule of the
\* same severity
C23_Witness ==
  /\ Analyzed
  /\ options.platform = "github"
  /\ log = << "Invalid workflow file: AccessDenied", "connect ETIMEDOUT" >>
  /\ Len(OverlayFired) = 1
  /\ Len(CommonFired) >= 1
  /\ failures = CommonFired \o OverlayFired

\* the platform-specific fixes of every platform, in the order of the catalogue
AllPlatformFixes ==
  PLATFORM_FIXES.github \o PLATFORM_FIXES.aws
    \o PLATFORM_FIXES.gitlab \o PLATFORM_FIXES.circleci

\* C24: the fixes of a suggestion are the platform-agnostic fixes of the
\* failure's type, in catalogue order, followed by the platform-specific
\* fixes of that type whose platforms contain the configured platform, and
\* nothing else.
C24_FixesAreExactlyTheMatchingOnes ==
  Suggested =>
    \A i \in 1..Len(suggestions) :
      /\ suggestions[i].fixes =
           SelectSeq(COMMON_FIXES,
                     LAMBDA fix : /\ ~fix.platformSpecific
                                  /\ fix.type = suggestions[i].failure.type)
           \o SelectSeq(AllPlatformFixes,
                        LAMBDA fix : /\ fix.platformSpecific
                                     /\ fix.type = suggestions[i].failure.type
                                     /\ options.platform \in fix.platforms)
      /\ \A j \in 1..Len(suggestions[i].fixes) :
           LET fix == suggestions[i].fixes[j]
           IN  /\ fix.type = suggestions[i].failure.type
               /\ fix.platformSpecific => options.platform \in fix.platforms

C24_Witness ==
  /\ Suggested
  /\ options.platform = "github"
  /\ Len(suggestions) = 2
  /\ suggestions[1].failure.type = "configuration"
  /\ suggestions[2].failure.type = "permission"
  /\ \E j \in 1..Len(suggestions[1].fixes) :
       /\ suggestions[1].fixes[j].platformSpecific
       /\ j > 1
       /\ ~suggestions[1].fixes[1].platformSpecific
  /\ \E j \in 1..Len(suggestions[2].fixes) :
       suggestions[2].fixes[j].platformSpecific

(***************************************************************************)
(* Claims about the catalogues as state (SpecHistory, SpecOperations).     *)
(***************************************************************************)
IsAnalyzeReturn(r) == r.op = "analyzeFailure"

\* C25: two analyzeFailure calls with the same log on analyzers with the
\* same options return the same list, whatever calls were made before or
\* between them, on whichever instance; the list is the one a first call
\* in a fresh program returns.
C25_SameLogSameResult ==
  \A i \in 1..Len(returned) :
    IsAnalyzeReturn(returned[i]) =>
      /\ returned[i].result =
           AnalyzeFailure(Analyzers[returned[i].analyzer], returned[i].arg)
      /\ \A j \in 1..Len(returned) :
           (/\ IsAnalyzeReturn(returned[j])
            /\ Analyzers[returned[j].analyzer] = Analyzers[returned[i].analyzer]
            /\ returned[j].arg = returned[i].arg)
             => returned[j].result = returned[i].result

C25_Witness ==
  /\ Len(returned) = 3
  /\ IsAnalyzeReturn(returned[1])
  /\ returned[1].analyzer = 1
  /\ returned[1].arg = << "Invalid workflow file: AccessDenied" >>
  /\ ~IsAnalyzeReturn(returned[2])
  /\ returned[2].analyzer = 3
  /\ IsAnalyzeReturn(returned[3])
  /\ returned[3].analyzer = 2
  /\ returned[3].arg = returned[1].arg
  /\ returned[3].result = returned[1].result
  /\ \E n \in 1..Len(returned[3].result) :
       returned[3].result[n].type = "configuration"

\* C26: no step of analyzeFailure, suggestFixes, attemptFix or
\* generateSelfHealingReport changes the pattern catalogue or the fix
\* catalogue.
C26_CatalogsUnchanged == [][catalogs' = catalogs]_vars

C26_Witness ==
  /\ catalogs = LoadedCatalogs
  /\ phase = "suggested"
  /\ \E i \in 1..Len(suggestions) :
       SomeFix(suggestions[i].fixes, LAMBDA fix : fix.platformSpecific)
  /\ calls[1].op = "attemptFix"
  /\ calls[1].pc = "returned"

(***************************************************************************)
(* Claims about analyzeFailure followed by suggestFixes (SpecAnalyzer).    *)
(***************************************************************************)
HasFixAndConfidence(suggestion) ==
  /\ Len(suggestion.fixes) >= 1
  /\ suggestion.confidence > 0

\* C27: on a supported platform, the suggestion for a failure that a
\* catalogue rule produced (any type but unknown) has at least one fix and a
\* confidence above 0: for the failures of the list analyzeFailure returned,
\* and for a failure of every rule the analyzer evaluates on that platform.
C27_RuleFailuresGetFixes ==
  options.platform \in CIPlatform =>
    /\ Suggested =>
         \A i \in 1..Len(suggestions) :
           /\ suggestions[i].failure = failures[i]
           /\ failures[i].type # "unknown" => HasFixAndConfidence(suggestions[i])
    /\ \A r \in 1..Len(PatternsFor(options)) :
         LET rule == PatternsFor(options)[r]
         IN  /\ rule.type # "unknown"
             /\ HasFixAndConfidence(
                  SuggestionFor(options, FailureOf(rule.type, rule.severity)))

C27_Witness ==
  /\ Suggested
  /\ options.platform = "aws"
  /\ log = << "flaky test", "JavaScript heap out of memory" >>
  /\ Len(suggestions) >= 2
  /\ \E i \in 1..Len(suggestions) :
       /\ suggestions[i].failure.type = "test"
       /\ suggestions[i].failure.severity = "low"
       /\ Len(suggestions[i].fixes) >= 1
       /\ suggestions[i].confidence = 40
  /\ \A i \in 1..Len(suggestions) : suggestions[i].failure.type # "unknown"

(***************************************************************************)
(* Claims about the transient script file of attemptFix (SpecTwoScripts).  *)
(***************************************************************************)
\* the call has written its script file and has not returned
HoldsScriptFile(c) == IsAttemptFix(c) /\ calls[c].wrote /\ ~Returned(c)

\* C28: two attemptFix calls in flight never use the same script file; the
\* file a call executes is there, was written by that call and holds the
\* script that call selected.
C28_ScriptFilePerCall ==
  /\ \A c, d \in Calls :
       (c # d /\ HoldsScriptFile(c) /\ HoldsScriptFile(d)) =>
         calls[c].scriptFile # calls[d].scriptFile
  /\ \A p \in procs :
       /\ p.found
       /\ p.script.writer = p.call
       /\ \E k \in 1..Len(calls[p.call].arg.fixes) :
            /\ FirstScripted(calls[p.call].arg.fixes, k)
            /\ p.script.content = calls[p.call].arg.fixes[k].fixScript

\* attemptFix call c returns in this step
AttemptFixReturns(c) ==
  /\ calls[c].pc # "returned"
  /\ calls'[c].pc = "returned"
  /\ calls'[c].op = "attemptFix"
  /\ calls'[c].result.settled = "resolved"

\* C29: when attemptFix returns success=true, the selected script was
\* executed and exited with 0, the script file the call wrote is gone, and
\* every fix-attempt record of the call carries success=true; when a step of
\* the call has failed, the call returns success=false.
C29_SuccessMeansRanAndCleaned ==
  [][\A c \in Calls :
       AttemptFixReturns(c) =>
         /\ calls'[c].result.value.success =>
              /\ \E p \in procs :
                   /\ p.call = c
                   /\ p.found
                   /\ p.script.content = calls[c].locals.fixScript
              /\ calls[c].stdout = "stdout"
              /\ calls[c].scriptFile \in DOMAIN tmp' =>
                   tmp'[calls[c].scriptFile].writer # c
              /\ \A name \in DOMAIN history' :
                   history'[name].by = c => history'[name].success
         /\ calls[c].err # "" => ~calls'[c].result.value.success]_vars

(***************************************************************************)
(* Claims about the unknown failure (SpecAnalyzer).                        *)
(***************************************************************************)
HasUnknown(fs) == \E i \in 1..Len(fs) : fs[i].type = "unknown"

\* C30: the list analyzeFailure returns holds a failure of type unknown
\* exactly when it has one element and no matcher fired; a list with an
\* unknown failure holds no failure that a rule produced.
C30_UnknownOnlyAlone ==
  Analyzed =>
    /\ HasUnknown(failures) <=> (Len(failures) = 1 /\ FiredCount = 0)
    /\ HasUnknown(failures) =>
         \A i \in 1..Len(failures) :
           /\ failures[i].type = "unknown"
           /\ failures[i].matchedPattern = ""

C30_Witness ==
  /\ Analyzed
  /\ log = << "all checks passed", "flaky test" >>
  /\ FiredCount = 1
  /\ Len(failures) = 1
  /\ ~HasUnknown(failures)
  /\ failures[1].matchedPattern # ""

=============================================================================
